---- MODULE Spec2Model ----
(***************************************************************************)
(* Model of the checkers session server of src/server.js (lines 1-260):    *)
(* the rules engine (getValidMoves, getAllValidMoves, applyMove), the room *)
(* registry `rooms`, the per-socket fields roomId / playerIndex, the       *)
(* socket.io room membership used by io.to(...).emit, and the delayed      *)
(* gameStart broadcasts of joinRoom and processRematchVote.                *)
(***************************************************************************)
EXTENDS Integers, Sequences, FiniteSets, Bags, TLC

\* ---------------------------------------------------------------- bounds
NumSockets == 2      \* connections the model opens (named in connection order)
NumTokens == 2       \* values generateRoomId may return
MaxTimers == 1       \* delayed gameStart broadcasts pending at one time
MaxCreates == 2      \* createRoom requests handled
MaxJoins == 2        \* joinRoom requests that succeed
MaxVotes == 2        \* rematchVote requests counted
MaxMoves == 1        \* makeMove payloads that reach applyMove
InputCols == 4       \* columns a makeMove payload takes its origin from
MaxPieces == 3       \* pieces of a mid-game position (InitRules)
MaxPlies == 2        \* applyMove calls from a mid-game position (InitRules)
MaxReuses == 1       \* createRoom, and joinRoom, requests after a token is freed (InitStale)

\* ------------------------------------------------------ program constants
BoardSize == 8       \* Array.from({ length: 8 }, ...)
LastRow == 7         \* nr > 7, tr === 7
P2Rows == 3          \* for (let row = 0; row < 3; row++)
P1FirstRow == 5      \* for (let row = 5; row < 8; row++)

Rows == 0..LastRow
Cells == Rows \X Rows

Sockets == 1..NumSockets
Tokens == 1..NumTokens
ObjIds == 1..(NumTokens + MaxTimers)

\* JS null / undefined for a cell, a token and a player
Null == <<>>
NoToken == 0
NoWinner == 0
\* room.gameState === null
NullGame == [null |-> TRUE]
\* a room object nobody references any more
NoObj == [free |-> TRUE]

\* ------------------------------------------------------------ rules engine

\* src/server.js:19-35
createInitialBoard ==
  [row \in Rows |-> [col \in Rows |->
     IF (row + col) % 2 = 1 /\ row < P2Rows THEN 2
     ELSE IF (row + col) % 2 = 1 /\ row >= P1FirstRow THEN 1
     ELSE 0]]

\* src/server.js:37-44
createGameState ==
  [board |-> createInitialBoard, currentTurn |-> 1, winner |-> NoWinner,
   mustJumpFrom |-> Null]

\* piece === 1 || piece === 3 ? 1 : 2   (lines 49, 88)
PlayerOf(piece) == IF piece = 1 \/ piece = 3 THEN 1 ELSE 2

IsKing(piece) == piece = 3 \/ piece = 4

\* lines 53-54
Directions(piece) ==
  (IF PlayerOf(piece) = 1 \/ IsKing(piece) THEN {<<-1, -1>>, <<-1, 1>>} ELSE {})
  \cup
  (IF PlayerOf(piece) = 2 \/ IsKing(piece) THEN {<<1, -1>>, <<1, 1>>} ELSE {})

InBoard(r, c) == r >= 0 /\ r <= LastRow /\ c >= 0 /\ c <= LastRow

\* line 63
IsEnemy(player, target) ==
  /\ target # 0
  /\ \/ player = 1 /\ (target = 2 \/ target = 4)
     \/ player = 2 /\ (target = 1 \/ target = 3)

\* lines 59-68: the jumps of the piece on (row, col)
JumpsOf(board, row, col) ==
  LET piece == board[row][col]
      player == PlayerOf(piece)
  IN { [from |-> <<row, col>>,
        to |-> <<row + 2 * d[1], col + 2 * d[2]>>,
        captured |-> <<row + d[1], col + d[2]>>] :
       d \in { e \in Directions(piece) :
                /\ InBoard(row + e[1], col + e[2])
                /\ IsEnemy(player, board[row + e[1]][col + e[2]])
                /\ InBoard(row + 2 * e[1], col + 2 * e[2])
                /\ board[row + 2 * e[1]][col + 2 * e[2]] = 0 } }

\* lines 69-71 without `!target`
StepsOf_NoEmptyCheck(board, row, col, mustJumpFrom) ==
  LET piece == board[row][col]
      player == PlayerOf(piece)
  IN { [from |-> <<row, col>>,
        to |-> <<row + d[1], col + d[2]>>,
        captured |-> Null] :
       d \in { e \in Directions(piece) :
                /\ InBoard(row + e[1], col + e[2])
                /\ ~IsEnemy(player, board[row + e[1]][col + e[2]])
                /\ mustJumpFrom = Null } }

\* lines 69-71: the simple moves of the piece on (row, col)
StepsOf(board, row, col, mustJumpFrom) ==
  LET piece == board[row][col]
      player == PlayerOf(piece)
  IN { [from |-> <<row, col>>,
        to |-> <<row + d[1], col + d[2]>>,
        captured |-> Null] :
       d \in { e \in Directions(piece) :
                /\ InBoard(row + e[1], col + e[2])
                /\ ~IsEnemy(player, board[row + e[1]][col + e[2]])
                /\ board[row + e[1]][col + e[2]] = 0
                /\ mustJumpFrom = Null } }

\* src/server.js:46-80
getValidMoves(board, row, col, mustJumpFrom) ==
  IF board[row][col] = 0 THEN {}
  ELSE IF mustJumpFrom # Null
       THEN IF mustJumpFrom = <<row, col>> THEN JumpsOf(board, row, col) ELSE {}
       ELSE IF JumpsOf(board, row, col) # {}
            THEN JumpsOf(board, row, col)
            ELSE StepsOf(board, row, col, mustJumpFrom)

\* lines 83-92: the concatenation over the player's pieces
AllOf(board, player, mustJumpFrom) ==
  UNION { getValidMoves(board, cell[1], cell[2], mustJumpFrom) :
          cell \in { x \in Cells : /\ board[x[1]][x[2]] # 0
                                   /\ PlayerOf(board[x[1]][x[2]]) = player } }

\* getAllValidMoves without the filter of lines 94-95
getAllValidMoves_NoFilter(board, player, mustJumpFrom) ==
  AllOf(board, player, mustJumpFrom)

\* src/server.js:82-96
getAllValidMoves(board, player, mustJumpFrom) ==
  LET all == AllOf(board, player, mustJumpFrom)
      jumps == { m \in all : m.captured # Null }
  IN IF jumps # {} THEN jumps ELSE all


\* line 106: board[captured[0]] is undefined for a row outside the array, and
\* the assignment to its element throws a TypeError
Throws(move) == move.captured # Null /\ move.captured[1] \notin Rows

\* lines 104-106 up to the throw: only the origin has been emptied
applyMoveThrown(gameState, move) ==
  [gameState EXCEPT !.board[move.from[1]][move.from[2]] = 0]

\* lines 104-111 without the promotion of lines 109-110
MovedBoard_NoPromotion(board, move) ==
  LET b1 == [board EXCEPT ![move.from[1]][move.from[2]] = 0]
      b2 == IF move.captured # Null /\ move.captured[2] \in Rows
            THEN [b1 EXCEPT ![move.captured[1]][move.captured[2]] = 0]
            ELSE b1
  IN [b2 EXCEPT ![move.to[1]][move.to[2]] = board[move.from[1]][move.from[2]]]

\* lines 104-111: the board after the move
MovedBoard(board, move) ==
  LET fr == move.from[1]
      fc == move.from[2]
      tr == move.to[1]
      tc == move.to[2]
      piece == board[fr][fc]
      newPiece == IF piece = 1 /\ tr = 0 THEN 3
                  ELSE IF piece = 2 /\ tr = LastRow THEN 4
                  ELSE piece
      b1 == [board EXCEPT ![fr][fc] = 0]
      b2 == IF move.captured # Null /\ move.captured[2] \in Rows
            THEN [b1 EXCEPT ![move.captured[1]][move.captured[2]] = 0]
            ELSE b1
  IN [b2 EXCEPT ![tr][tc] = newPiece]

\* lines 113-117 looking at the board before the piece has landed (before
\* lines 104-111)
FurtherJump_BeforeLanding(gameState, move) ==
  LET board == gameState.board
      tr == move.to[1]
      tc == move.to[2]
  IN /\ move.captured # Null
     /\ InBoard(tr, tc)
     /\ { m \in getValidMoves(board, tr, tc, <<tr, tc>>) : m.captured # Null } # {}

\* lines 113-117
FurtherJump(gameState, move) ==
  LET board == MovedBoard(gameState.board, move)
      tr == move.to[1]
      tc == move.to[2]
  IN /\ move.captured # Null
     /\ board[tr][tc] = gameState.board[move.from[1]][move.from[2]]
     /\ { m \in getValidMoves(board, tr, tc, <<tr, tc>>) : m.captured # Null } # {}

\* src/server.js:98-133, for a move that does not throw
applyMove(gameState, move) ==
  LET board == MovedBoard(gameState.board, move)
      mustJumpFrom == IF FurtherJump(gameState, move) THEN move.to ELSE Null
      nextPlayer == IF mustJumpFrom = Null
                    THEN (IF gameState.currentTurn = 1 THEN 2 ELSE 1)
                    ELSE gameState.currentTurn
      allMoves == getAllValidMoves(board, nextPlayer, mustJumpFrom)
  IN [board |-> board,
      currentTurn |-> nextPlayer,
      winner |-> IF allMoves = {} THEN (IF nextPlayer = 1 THEN 2 ELSE 1)
                 ELSE gameState.winner,
      mustJumpFrom |-> mustJumpFrom]

\* ------------------------------------------------------------------ state

VARIABLES
  sock,     \* per connection: status, socket.roomId, socket.playerIndex and
            \* the socket.io rooms it has joined
  rooms,    \* the registry `rooms`: token -> room object (0: no property)
  heap,     \* the room objects: players, gameState, rematchVotes
  timers,   \* bag of handlers suspended in `await delay(...)`
  out,      \* the events the last handler emitted, each with its receivers
  budget    \* requests of each kind the model still allows

vars == <<sock, rooms, heap, timers, out, budget>>

NewSocket == [status |-> "none", roomId |-> NoToken, playerIndex |-> 0, joined |-> {}]

\* lines 141-145
NewRoom(s) == [players |-> <<s>>, gameState |-> NullGame, rematchVotes |-> {}]

\* io.to(roomId): the connected sockets that joined the socket.io room
Members(sk, roomId) ==
  { s \in Sockets : sk[s].status = "open" /\ roomId \in sk[s].joined }

Event(ev, to, data) == [ev |-> ev, to |-> to, data |-> data]

\* the object rooms[roomId], or NoObj for a token that is no property of rooms
RoomAt(roomId) ==
  IF roomId \in Tokens /\ rooms[roomId] # 0 THEN heap[rooms[roomId]] ELSE NoObj

\* objects still referenced by the registry or by a suspended handler
Live(r, t) ==
  { r[k] : k \in { x \in Tokens : r[x] # 0 } } \cup { x.obj : x \in BagToSet(t) }

\* garbage collection: an unreferenced room object is gone
Collect(h, r, t) == [i \in ObjIds |-> IF i \in Live(r, t) THEN h[i] ELSE NoObj]

\* the identity of a newly allocated room object
Alloc(r, t) == CHOOSE i \in ObjIds \ Live(r, t) : \A j \in ObjIds \ Live(r, t) : i <= j

Init ==
  /\ sock = [s \in Sockets |-> NewSocket]
  /\ rooms = [k \in Tokens |-> 0]
  /\ heap = [i \in ObjIds |-> NoObj]
  /\ timers = EmptyBag
  /\ out = {}
  /\ budget = [create |-> MaxCreates, join |-> MaxJoins, vote |-> MaxVotes,
               move |-> MaxMoves]

\* io.on('connection'), line 183; connections are named in their order
Connect(s) ==
  /\ sock[s].status = "none"
  /\ \A x \in Sockets : x < s => sock[x].status # "none"
  /\ sock' = [sock EXCEPT ![s].status = "open"]
  /\ out' = {}
  /\ UNCHANGED <<rooms, heap, timers, budget>>

\* tokens a room, a socket.roomId or a socket.io room has ever carried
Used ==
  { k \in Tokens : \/ rooms[k] # 0
                   \/ \E s \in Sockets : k \in sock[s].joined \/ sock[s].roomId = k }

\* src/server.js:15-17: Math.random() may give any token, one that is mapped
\* included; the tokens never used are interchangeable, the least stands for them
generateRoomId ==
  { k \in Tokens : k \in Used \/ \A j \in Tokens \ Used : k <= j }

\* socket.on('createRoom'), lines 187-194 with createRoom, lines 139-150
CreateRoom(s) ==
  /\ sock[s].status = "open"
  /\ budget.create > 0
  /\ budget' = [budget EXCEPT !.create = @ - 1]
  /\ \E roomId \in generateRoomId :
       LET freed == [rooms EXCEPT ![roomId] = 0]
           id == Alloc(freed, timers)
       IN /\ rooms' = [rooms EXCEPT ![roomId] = id]
          /\ heap' = Collect([heap EXCEPT ![id] = NewRoom(s)], rooms', timers)
          /\ sock' = [sock EXCEPT ![s].joined = @ \cup {roomId},
                                  ![s].roomId = roomId,
                                  ![s].playerIndex = 1]
          /\ out' = {Event("roomCreated", {s}, roomId)}
          /\ UNCHANGED timers


\* a handler suspended in `await delay(...)`: the joinRoom handler keeps its
\* roomId argument, processRematchVote keeps its socket; both keep `room`
Timer(kind, key, obj) == [kind |-> kind, key |-> key, obj |-> obj]

\* line 156 with `>` for `>=`
RoomIsFull_OffByOne(room) == Len(room.players) > 2

\* line 156
RoomIsFull(room) == Len(room.players) >= 2

\* lines 155-156 and 210-212: joinRoom throws, the requester gets joinError
JoinFailed(s, roomId) ==
  /\ \/ /\ rooms[roomId] = 0
        /\ out' = {Event("joinError", {s}, "Room not found")}
     \/ /\ rooms[roomId] # 0
        /\ RoomIsFull(heap[rooms[roomId]])
        /\ out' = {Event("joinError", {s}, "Room is full")}
  /\ UNCHANGED <<sock, rooms, heap, timers, budget>>

\* lines 157-162 and 200-205, up to `await delay(500)`
JoinSucceeded(s, roomId) ==
  /\ rooms[roomId] # 0
  /\ ~RoomIsFull(heap[rooms[roomId]])
  /\ BagCardinality(timers) < MaxTimers
  /\ budget.join > 0
  /\ budget' = [budget EXCEPT !.join = @ - 1]
  /\ LET id == rooms[roomId]
         p1 == heap[id].players[1]
     IN /\ heap' = [heap EXCEPT ![id].players = Append(@, s),
                                ![id].gameState = createGameState]
        /\ sock' = [sock EXCEPT ![s].joined = @ \cup {roomId},
                                ![s].roomId = roomId,
                                ![s].playerIndex = 2]
        /\ out' = {Event("roomJoined", {s}, roomId)} \cup
                  (IF sock[p1].status = "open"
                   THEN {Event("opponentJoined", {p1}, Null)} ELSE {})
        /\ timers' = timers (+) SetToBag({Timer("join", roomId, id)})
        /\ UNCHANGED rooms

\* socket.on('joinRoom'), lines 197-213 with joinRoom, lines 153-163
JoinRoom(s) ==
  /\ sock[s].status = "open"
  /\ \E roomId \in Tokens : JoinFailed(s, roomId) \/ JoinSucceeded(s, roomId)

\* the makeMove payloads: from a cell of the first InputCols columns to the
\* cell one or two diagonals away (on the board or off it)
MoveInputs ==
  { <<c, <<c[1] + d[1], c[2] + d[2]>>>> :
      c \in Rows \X (0..(InputCols - 1)),
      d \in {<<-2, -2>>, <<-2, 2>>, <<-1, -1>>, <<-1, 1>>,
             <<1, -1>>, <<1, 1>>, <<2, -2>>, <<2, 2>>} }

\* the cell between origin and destination of a payload two diagonals long
Between(p) ==
  IF p[2][1] - p[1][1] \in {-2, 2}
  THEN {<<(p[1][1] + p[2][1]) \div 2, (p[1][2] + p[2][2]) \div 2>>}
  ELSE {}

\* the `captured` field of a payload: null, the jumped cell as the page's own
\* script sends it (lines 590-608), or what another client sends: a cell
\* elsewhere on the board, a row outside it
ForgedCaptured == {<<1, 2>>, <<BoardSize, 0>>}
CapturedInputs(p) == {Null} \cup Between(p) \cup ForgedCaptured

\* lines 224-227: the legal moves with the payload's origin and destination
Matches(valid, from, to) == { m \in valid : m.from = from /\ m.to = to }

\* the early returns without the turn check of line 221
Ignores_NoTurnCheck(room, playerIndex) ==
  IF room = NoObj THEN TRUE
  ELSE IF room.gameState = NullGame THEN TRUE
  ELSE room.gameState.winner # NoWinner

\* lines 219 and 221: the two early returns
Ignores(room, playerIndex) ==
  IF room = NoObj THEN TRUE
  ELSE IF room.gameState = NullGame THEN TRUE
  ELSE \/ room.gameState.winner # NoWinner
       \/ room.gameState.currentTurn # playerIndex

\* line 223
ValidFor(s) ==
  LET gs == RoomAt(sock[s].roomId).gameState
  IN getAllValidMoves(gs.board, sock[s].playerIndex, gs.mustJumpFrom)

\* lines 218-221: nothing is emitted, nothing changes
MoveIgnored(s) ==
  /\ Ignores(RoomAt(sock[s].roomId), sock[s].playerIndex)
  /\ out' = {}
  /\ UNCHANGED <<sock, rooms, heap, timers, budget>>

\* lines 229-232, `valid` being the legal moves of line 223
MoveRejected(s, valid) ==
  /\ ~(\A p \in MoveInputs : Matches(valid, p[1], p[2]) # {})
  /\ out' = {Event("invalidMove", {s}, Null)}
  /\ UNCHANGED <<sock, rooms, heap, timers, budget>>

\* lines 234-238: applyMove on the payload itself, then the broadcast, or
\* the catch clause when applyMove throws
MoveAccepted(s, valid, p, captured) ==
  LET id == rooms[sock[s].roomId]
      gs == heap[id].gameState
      move == [from |-> p[1], to |-> p[2], captured |-> captured]
  IN /\ Matches(valid, p[1], p[2]) # {}
     /\ budget.move > 0
     /\ budget' = [budget EXCEPT !.move = @ - 1]
     /\ \/ /\ Throws(move)
           /\ heap' = [heap EXCEPT ![id].gameState = applyMoveThrown(gs, move)]
           /\ out' = {Event("error", {s}, "TypeError")}
        \/ /\ ~Throws(move)
           /\ heap' = [heap EXCEPT ![id].gameState = applyMove(gs, move)]
           /\ out' = {Event("gameStateUpdate", Members(sock, sock[s].roomId),
                            heap'[id].gameState)}
     /\ UNCHANGED <<sock, rooms, timers>>

\* socket.on('makeMove'), lines 216-239
MakeMove(s) ==
  /\ sock[s].status = "open"
  /\ \/ MoveIgnored(s)
     \/ /\ ~Ignores(RoomAt(sock[s].roomId), sock[s].playerIndex)
        /\ \E valid \in {ValidFor(s)} :
              \/ MoveRejected(s, valid)
              \/ \E p \in { q \in { <<m.from, m.to>> : m \in valid } : q \in MoveInputs } :
                   \E captured \in CapturedInputs(p) :
                     MoveAccepted(s, valid, p, captured)

\* the sockets in the slots of a room
Slots(room) == { room.players[i] : i \in 1..Len(room.players) }

\* line 173 without the clear() of line 174
RematchReset_KeepVotes(room) ==
  [room EXCEPT !.gameState = createGameState]

\* lines 173-174
RematchReset(room) ==
  [room EXCEPT !.gameState = createGameState, !.rematchVotes = {}]

\* socket.on('rematchVote'), lines 242-248 with processRematchVote,
\* lines 166-181, up to `await delay(300)`
RematchVote(s) ==
  /\ sock[s].status = "open"
  /\ LET room == RoomAt(sock[s].roomId)
         id == rooms[sock[s].roomId]
         votes == room.rematchVotes \cup {s}
         tally == Event("rematchVoteUpdate", Members(sock, sock[s].roomId),
                        Cardinality(votes))
     IN \/ /\ room = NoObj
           /\ out' = {Event("error", {s}, "Room not found")}
           /\ UNCHANGED <<sock, rooms, heap, timers, budget>>
        \/ /\ room # NoObj
           /\ Cardinality(votes) < 2
           /\ budget.vote > 0
           /\ budget' = [budget EXCEPT !.vote = @ - 1]
           /\ heap' = [heap EXCEPT ![id].rematchVotes = votes]
           /\ out' = {tally}
           /\ UNCHANGED <<sock, rooms, timers>>
        \/ /\ room # NoObj
           /\ Cardinality(votes) >= 2
           /\ BagCardinality(timers) < MaxTimers
           /\ budget.vote > 0
           /\ budget' = [budget EXCEPT !.vote = @ - 1]
           /\ heap' = [heap EXCEPT ![id] =
                         RematchReset([room EXCEPT !.rematchVotes = votes])]
           /\ out' = {tally}
           /\ timers' = timers (+) SetToBag({Timer("rematch", s, id)})
           /\ UNCHANGED <<sock, rooms>>

\* the continuation after `await delay(...)`: lines 176-179 and 206-209
FireTimer ==
  \E t \in BagToSet(timers) :
    LET roomId == IF t.kind = "join" THEN t.key ELSE sock[t.key].roomId
    IN /\ timers' = timers (-) SetToBag({t})
       /\ out' = {Event("gameStart", Members(sock, roomId),
                        [gameState |-> heap[t.obj].gameState,
                         players |-> heap[t.obj].players])}
       /\ heap' = Collect(heap, rooms, timers')
       /\ UNCHANGED <<sock, rooms, budget>>

\* socket.on('disconnect'), lines 250-256; socket.io has already taken the
\* socket out of its rooms when the handler runs
Disconnect(s) ==
  /\ sock[s].status = "open"
  /\ sock' = [sock EXCEPT ![s].status = "closed", ![s].joined = {}]
  /\ LET roomId == sock[s].roomId
     IN \/ /\ roomId # NoToken
           /\ rooms[roomId] # 0
           /\ out' = {Event("opponentDisconnected", Members(sock', roomId), Null)}
           /\ rooms' = [rooms EXCEPT ![roomId] = 0]
           /\ heap' = Collect(heap, rooms', timers)
        \/ /\ ~(roomId # NoToken /\ rooms[roomId] # 0)
           /\ out' = {}
           /\ UNCHANGED <<rooms, heap>>
  /\ UNCHANGED <<timers, budget>>

Next ==
  \/ \E s \in Sockets : Connect(s)
  \/ \E s \in Sockets : CreateRoom(s)
  \/ \E s \in Sockets : JoinRoom(s)
  \/ \E s \in Sockets : MakeMove(s)
  \/ \E s \in Sockets : RematchVote(s)
  \/ \E s \in Sockets : Disconnect(s)
  \/ FireTimer

Spec == Init /\ [][Next]_vars

\* setTimeout (line 136): a handler suspended in `await delay(...)` is resumed
SpecLive == Spec /\ WF_vars(FireTimer)


\* ------------------------------------------------- mid-game positions

\* the squares the pieces of a mid-game position stand on
MidCells == {<<0, 1>>, <<0, 3>>, <<1, 0>>, <<1, 2>>, <<1, 4>>, <<2, 1>>,
             <<3, 2>>, <<4, 1>>, <<6, 1>>}

\* the board with the pieces of `placed` (a function from cells to pieces)
BoardOf(placed) ==
  [row \in Rows |-> [col \in Rows |->
     IF <<row, col>> \in DOMAIN placed THEN placed[<<row, col>>] ELSE 0]]

\* positions of a game in play: up to MaxPieces pieces, both players present,
\* a man that reached the far row is a king (lines 109-111); either player to move,
\* no capture chain under way, the winner as line 128 left it
MidGames ==
  { [board |-> BoardOf(placed), currentTurn |-> turn,
     winner |-> IF getAllValidMoves(BoardOf(placed), turn, Null) = {}
                THEN (IF turn = 1 THEN 2 ELSE 1) ELSE NoWinner,
     mustJumpFrom |-> Null] :
    placed \in UNION { { f \in [S -> 1..4] :
                          /\ \E c \in S : PlayerOf(f[c]) = 1
                          /\ \E c \in S : PlayerOf(f[c]) = 2
                          /\ \A c \in S : f[c] = 1 => c[1] # 0
                          /\ \A c \in S : f[c] = 2 => c[1] # LastRow } :
                       S \in { T \in SUBSET MidCells : Cardinality(T) <= MaxPieces } },
    turn \in {1, 2} }

\* a room with both players in it and a game in play, after its gameStart
ActiveRoom(gs) ==
  /\ sock = [s \in Sockets |->
               IF s <= 2
               THEN [status |-> "open", roomId |-> 1, playerIndex |-> s, joined |-> {1}]
               ELSE NewSocket]
  /\ heap = [i \in ObjIds |->
               IF i = 1 THEN [players |-> <<1, 2>>, gameState |-> gs, rematchVotes |-> {}]
               ELSE NoObj]

\* a room its creator waits in, and a connection that has not joined yet
WaitingRoom ==
  /\ sock = [s \in Sockets |->
               IF s = 1
               THEN [status |-> "open", roomId |-> 1, playerIndex |-> 1, joined |-> {1}]
               ELSE IF s = 2 THEN [NewSocket EXCEPT !.status = "open"]
               ELSE NewSocket]
  /\ heap = [i \in ObjIds |-> IF i = 1 THEN NewRoom(1) ELSE NoObj]

InitRules ==
  /\ rooms = [k \in Tokens |-> IF k = 1 THEN 1 ELSE 0]
  /\ \/ WaitingRoom
     \/ \E gs \in MidGames : ActiveRoom(gs)
  /\ timers = EmptyBag
  /\ out = {}
  /\ budget = [create |-> 0, join |-> 0, vote |-> 0, move |-> MaxPlies]

NextRules == \E s \in Sockets : MakeMove(s)

SpecRules == InitRules /\ [][NextRules]_vars


\* the positions of a game that is over
EndedGames == { gs \in MidGames : gs.winner # NoWinner }

\* a room whose game is over, both players connected
InitRematch ==
  /\ rooms = [k \in Tokens |-> IF k = 1 THEN 1 ELSE 0]
  /\ \E gs \in EndedGames : ActiveRoom(gs)
  /\ timers = EmptyBag
  /\ out = {}
  /\ budget = [create |-> 0, join |-> 0, vote |-> MaxVotes, move |-> MaxMoves]

NextRematch ==
  \/ \E s \in Sockets : MakeMove(s)
  \/ \E s \in Sockets : RematchVote(s)
  \/ \E s \in Sockets : Disconnect(s)
  \/ FireTimer

SpecRematch == InitRematch /\ [][NextRematch]_vars


\* after a connection that is gone created a room under token 1, socket 1
\* joined it and the creator disconnected: the room is deleted (line 254),
\* socket 1 keeps roomId, playerIndex and its socket.io room; the other
\* connections have made no request yet
InitStale ==
  /\ sock = [s \in Sockets |->
               IF s = 1
               THEN [status |-> "open", roomId |-> 1, playerIndex |-> 2, joined |-> {1}]
               ELSE [NewSocket EXCEPT !.status = "open"]]
  /\ rooms = [k \in Tokens |-> 0]
  /\ heap = [i \in ObjIds |-> NoObj]
  /\ timers = EmptyBag
  /\ out = {}
  /\ budget = [create |-> MaxReuses, join |-> MaxReuses,
               vote |-> MaxVotes, move |-> MaxMoves]

NextStale ==
  \/ \E s \in Sockets : CreateRoom(s)
  \/ \E s \in Sockets : JoinRoom(s)
  \/ \E s \in Sockets : MakeMove(s)
  \/ \E s \in Sockets : RematchVote(s)
  \/ \E s \in Sockets : Disconnect(s)
  \/ FireTimer

SpecStale == InitStale /\ [][NextStale]_vars


\* ------------------------------------------------------------- claims

\* the room objects that hold a Position
Games == { id \in ObjIds : heap[id] # NoObj /\ heap[id].gameState # NullGame }

\* the socket's makeMove passes both early returns
Submits(s) ==
  /\ sock[s].status = "open"
  /\ ~Ignores(RoomAt(sock[s].roomId), sock[s].playerIndex)

\* some piece of `player` has a capture
AnyCapture(board, player) ==
  \E c \in Cells :
    /\ board[c[1]][c[2]] # 0
    /\ PlayerOf(board[c[1]][c[2]]) = player
    /\ JumpsOf(board, c[1], c[2]) # {}

\* C1: whenever makeMove accepts a payload, the room's new Position is
\* applyMove(position, m) for the legal move m the server computed for the
\* payload's origin and destination, whatever `captured` the payload carries.
C1_ServerMoveApplied ==
  [][budget'.move < budget.move =>
       \A s \in Sockets : Submits(s) =>
         \A valid \in {ValidFor(s)} : \A m \in valid :
           \A captured \in CapturedInputs(<<m.from, m.to>>) :
             MoveAccepted(s, valid, <<m.from, m.to>>, captured) =>
               heap'[rooms[sock[s].roomId]].gameState =
                 applyMove(heap[rooms[sock[s].roomId]].gameState, m)]_vars

\* C2: the cases in which a move submission must be ignored: the session has
\* no Position, its outcome is decided, or the submitter sits in a slot of the
\* session and is not the player whose turn it is
C2Pre(s) ==
  LET room == RoomAt(sock[s].roomId)
  IN /\ room # NoObj
     /\ IF room.gameState = NullGame THEN TRUE
        ELSE \/ room.gameState.winner # NoWinner
             \/ /\ s \in Slots(room)
                /\ s # room.players[room.gameState.currentTurn]

\* C2: a move submission in one of these cases changes neither a Position nor
\* a vote set nor the registry and broadcasts no position update; and no move
\* submission changes a Position whose winner is set.
C2_IgnoredSubmission ==
  [][/\ \A s \in Sockets : (C2Pre(s) /\ MakeMove(s)) =>
          /\ UNCHANGED <<sock, rooms, heap, timers>>
          /\ \A e \in out' : e.ev # "gameStateUpdate"
     /\ \A id \in Games : heap[id].gameState.winner # NoWinner =>
          heap'[id].gameState = heap[id].gameState]_vars

\* C2: a game is decided, its last move was broadcast, and a later submission
\* to it emitted nothing
C2_Witness ==
  /\ \E id \in Games : heap[id].gameState.winner # NoWinner
  /\ budget.move < MaxPlies
  /\ out = {}

\* C3: when the player to move submits a payload that is not legal, nothing
\* changes and the requester alone gets invalidMove; when the payload's origin
\* and destination are legal, gameStateUpdate goes to both participants.
C3_RejectOrBroadcast ==
  [][\A s \in Sockets : Submits(s) =>
       \A valid \in {ValidFor(s)} :
         /\ MoveRejected(s, valid) =>
              /\ UNCHANGED <<sock, rooms, heap, timers>>
              /\ out' = {Event("invalidMove", {s}, Null)}
         /\ \A m \in valid : \A captured \in CapturedInputs(<<m.from, m.to>>) :
              MoveAccepted(s, valid, <<m.from, m.to>>, captured) =>
                \E e \in out' :
                  /\ e.ev = "gameStateUpdate"
                  /\ Slots(RoomAt(sock[s].roomId)) \subseteq e.to]_vars

\* C4: the payloads one diagonal long that start on a piece
StepInputs(board) ==
  { p \in MoveInputs : Between(p) = {} /\ board[p[1][1]][p[1][2]] # 0 }

Promotes(board, m) ==
  \/ board[m.from[1]][m.from[2]] = 1 /\ m.to[1] = 0
  \/ board[m.from[1]][m.from[2]] = 2 /\ m.to[1] = LastRow

\* C5: when makeMove applies a capture (the payload naming the jumped piece)
\* by a piece that does not promote on it, the turn-owner is unchanged and
\* mustJumpFrom is the destination if the moved piece has a further capture
\* there, and otherwise the turn passes and mustJumpFrom is empty; and in every
\* Position with mustJumpFrom set, the legal moves of either player are captures
\* that start at that cell.
C5_CaptureChain ==
  /\ [](\A id \in Games :
          LET gs == heap[id].gameState
          IN gs.mustJumpFrom # Null =>
               \A player \in {1, 2} :
                 \A m \in getAllValidMoves(gs.board, player, gs.mustJumpFrom) :
                   m.from = gs.mustJumpFrom /\ m.captured # Null)
  /\ [][\A s \in Sockets : Submits(s) =>
          \A valid \in {ValidFor(s)} :
            \A m \in { x \in valid :
                         /\ x.captured # Null
                         /\ ~Promotes(RoomAt(sock[s].roomId).gameState.board, x) } :
              MoveAccepted(s, valid, <<m.from, m.to>>, m.captured) =>
                LET old == heap[rooms[sock[s].roomId]].gameState
                    new == heap'[rooms[sock[s].roomId]].gameState
                IN IF JumpsOf(new.board, m.to[1], m.to[2]) # {}
                   THEN /\ new.currentTurn = old.currentTurn
                        /\ new.mustJumpFrom = m.to
                   ELSE /\ new.currentTurn # old.currentTurn
                        /\ new.mustJumpFrom = Null]_vars

\* C5: player 1's piece has jumped from (4,1) over (3,2), which is now empty,
\* to (2,3), and has to go on capturing from there
C5_Witness ==
  \E id \in Games :
    LET gs == heap[id].gameState
    IN /\ gs.mustJumpFrom = <<2, 3>>
       /\ gs.currentTurn = 1
       /\ gs.board[4][1] = 0
       /\ gs.board[3][2] = 0
       /\ gs.board[2][3] \in {1, 3}
       /\ JumpsOf(gs.board, 2, 3) # {}

\* C6: in every Position the winner is empty exactly when the player to move
\* has a legal move under the current mustJumpFrom, and a winner that is set
\* is the opponent of the player to move.
C6_OutcomeIffNoMoves ==
  \A id \in Games :
    LET gs == heap[id].gameState
        moves == getAllValidMoves(gs.board, gs.currentTurn, gs.mustJumpFrom)
    IN /\ gs.winner = NoWinner <=> moves # {}
       /\ gs.winner # NoWinner => gs.winner # gs.currentTurn

\* C7: a joinRoom request for a token that maps to no room, or to a room with
\* two players, changes no socket, no room and nothing of the registry or the
\* pending timers, and emits joinError ("Room not found", "Room is full") to
\* the requester alone.
C7_JoinErrors ==
  [][\A s \in Sockets : \A roomId \in Tokens :
       (/\ sock[s].status = "open"
        /\ JoinFailed(s, roomId) \/ JoinSucceeded(s, roomId)) =>
         /\ rooms[roomId] = 0 =>
              /\ UNCHANGED <<sock, rooms, heap, timers>>
              /\ out' = {Event("joinError", {s}, "Room not found")}
         /\ (rooms[roomId] # 0 /\ Len(RoomAt(roomId).players) >= 2) =>
              /\ UNCHANGED <<sock, rooms, heap, timers>>
              /\ out' = {Event("joinError", {s}, "Room is full")}]_vars

\* C7: a request for a room that has its two players has just been refused
C7_Witness ==
  \E s \in Sockets : \E roomId \in Tokens :
    /\ rooms[roomId] # 0
    /\ Len(RoomAt(roomId).players) = 2
    /\ out = {Event("joinError", {s}, "Room is full")}

\* C8: when a socket disconnects, every registered room that has it in one of
\* its two slots is taken out of the registry.
C8_DisconnectRemoves ==
  [][\A s \in Sockets : Disconnect(s) =>
       \A roomId \in Tokens :
         (rooms[roomId] # 0 /\ s \in Slots(RoomAt(roomId))) =>
           rooms'[roomId] # rooms[roomId]]_vars

\* C9: createRoom leaves every registered room under its token and unaltered.
C9_CreateKeepsRooms ==
  [][\A s \in Sockets : CreateRoom(s) =>
       \A roomId \in Tokens : rooms[roomId] # 0 =>
         /\ rooms'[roomId] = rooms[roomId]
         /\ heap'[rooms[roomId]] = heap[rooms[roomId]]]_vars

\* C10: a rematchVote for a room whose game has no winner, or that has no
\* Position yet, changes neither the votes nor the Position of the room and
\* schedules no gameStart.
C10_VoteOnlyWhenDecided ==
  [][\A s \in Sockets :
       LET room == RoomAt(sock[s].roomId)
       IN (/\ RematchVote(s)
           /\ room # NoObj
           /\ IF room.gameState = NullGame THEN TRUE
              ELSE room.gameState.winner = NoWinner) =>
            /\ heap'[rooms[sock[s].roomId]] = room
            /\ timers' = timers]_vars

\* C11: the standard start: twelve player-2 men on the dark squares of rows
\* 0-2, twelve player-1 men on those of rows 5-7, nothing else, player 1 to
\* move, no forced continuation, no winner
StandardStart(gs) ==
  /\ gs # NullGame
  /\ Cardinality({ c \in Cells : gs.board[c[1]][c[2]] = 1 }) = 12
  /\ Cardinality({ c \in Cells : gs.board[c[1]][c[2]] = 2 }) = 12
  /\ \A c \in Cells :
       gs.board[c[1]][c[2]] =
         IF (c[1] + c[2]) % 2 = 1 /\ c[1] <= 2 THEN 2
         ELSE IF (c[1] + c[2]) % 2 = 1 /\ c[1] >= 5 THEN 1
         ELSE 0
  /\ gs.currentTurn = 1
  /\ gs.mustJumpFrom = Null
  /\ gs.winner = NoWinner

\* C11: no room ever holds two votes, and the rematchVote that brings the
\* votes of a room to two leaves, in that one step, the room with the standard
\* start as its Position and with no votes.
C11_RematchResets ==
  /\ [](\A id \in ObjIds : heap[id] # NoObj =>
          Cardinality(heap[id].rematchVotes) < 2)
  /\ [][\A s \in Sockets :
          LET room == RoomAt(sock[s].roomId)
          IN (/\ RematchVote(s)
              /\ room # NoObj
              /\ Cardinality(room.rematchVotes \cup {s}) >= 2) =>
               /\ StandardStart(heap'[rooms[sock[s].roomId]].gameState)
               /\ heap'[rooms[sock[s].roomId]].rematchVotes = {}]_vars

\* C11: both players of a finished game have voted; the game is reset, the
\* votes are gone and the gameStart of the rematch is pending
C11_Witness ==
  \E t \in BagToSet(timers) :
    /\ t.kind = "rematch"
    /\ heap[t.obj].gameState = createGameState
    /\ heap[t.obj].rematchVotes = {}
    /\ budget.move = MaxMoves
    /\ budget.vote = MaxVotes - 2

\* C12: every gameStart that is emitted carries the standard start as its
\* Position, in the one message that goes to the room.
C12_GameStartIsStart ==
  \A e \in out : e.ev = "gameStart" => StandardStart(e.data.gameState)

\* C13: no Position has a player-1 man on row 0 or a player-2 man on row 7;
\* and across a makeMove step a cell that held a king holds that king or
\* nothing, a king that moved is a king where it landed, and every man on the
\* board was a man before, on its cell or on the cell it moved from.
C13_PromotionIsPermanent ==
  /\ [](\A id \in Games : \A col \in Rows :
          /\ heap[id].gameState.board[0][col] # 1
          /\ heap[id].gameState.board[LastRow][col] # 2)
  /\ [][\A id \in Games :
          (budget'.move < budget.move /\ heap'[id] # heap[id]) =>
            LET old == heap[id].gameState.board
                new == heap'[id].gameState.board
            IN /\ \A c \in Cells : IsKing(old[c[1]][c[2]]) =>
                    new[c[1]][c[2]] \in {old[c[1]][c[2]], 0}
               /\ \A c \in Cells :
                    (new[c[1]][c[2]] # 0 /\ old[c[1]][c[2]] = 0) =>
                      \E f \in Cells :
                        /\ old[f[1]][f[2]] # 0
                        /\ new[f[1]][f[2]] = 0
                        /\ PlayerOf(old[f[1]][f[2]]) = PlayerOf(new[c[1]][c[2]])
                        /\ IsKing(old[f[1]][f[2]]) => IsKing(new[c[1]][c[2]])
               /\ \A c \in Cells :
                    new[c[1]][c[2]] \in {1, 2} =>
                      \/ old[c[1]][c[2]] = new[c[1]][c[2]]
                      \/ \E f \in Cells : /\ old[f[1]][f[2]] = new[c[1]][c[2]]
                                          /\ new[f[1]][f[2]] = 0]_vars

\* C13: a move has just been broadcast that left a king on the far row of its
\* player next to the empty cell a piece came from
C13_Witness ==
  \E e \in out :
    /\ e.ev = "gameStateUpdate"
    /\ \/ /\ e.data.currentTurn = 2
          /\ \E col \in Rows : /\ e.data.board[0][col] = 3
                               /\ col > 0
                               /\ e.data.board[1][col - 1] = 0
       \/ /\ e.data.currentTurn = 1
          /\ \E col \in Rows : /\ e.data.board[LastRow][col] = 4
                               /\ col < LastRow
                               /\ e.data.board[LastRow - 1][col + 1] = 0

\* C14: the move starts on a piece of `player`, ends on an empty cell of the
\* board one diagonal away, or two diagonals away across an opponent's piece
\* that is its captured cell
WellFormed(board, player, m) ==
  /\ m.from \in Cells /\ m.to \in Cells
  /\ board[m.from[1]][m.from[2]] # 0
  /\ PlayerOf(board[m.from[1]][m.from[2]]) = player
  /\ board[m.to[1]][m.to[2]] = 0
  /\ IF m.captured = Null
     THEN /\ m.to[1] - m.from[1] \in {-1, 1}
          /\ m.to[2] - m.from[2] \in {-1, 1}
     ELSE /\ m.captured \in Cells
          /\ m.to[1] - m.from[1] \in {-2, 2}
          /\ m.to[2] - m.from[2] \in {-2, 2}
          /\ 2 * m.captured[1] = m.from[1] + m.to[1]
          /\ 2 * m.captured[2] = m.from[2] + m.to[2]
          /\ IsEnemy(player, board[m.captured[1]][m.captured[2]])

\* C14: the number of pieces on a board
Pieces(board) == Cardinality({ c \in Cells : board[c[1]][c[2]] # 0 })

\* C14: in every Position, for either player and for the current or an empty
\* mustJumpFrom, every move of getAllValidMoves is well formed, applyMove on it
\* does not throw and leaves a board of the same 8x8 cells on which the
\* destination holds the moved piece and exactly the captured piece is gone.
C14_MovesStayOnBoard ==
  \A id \in Games : \A player \in {1, 2} :
    LET gs == heap[id].gameState
    IN \A mustJumpFrom \in {Null, gs.mustJumpFrom} :
         \A m \in getAllValidMoves(gs.board, player, mustJumpFrom) :
           /\ WellFormed(gs.board, player, m)
           /\ ~Throws(m)
           /\ LET new == MovedBoard(gs.board, m)
              IN /\ DOMAIN new = Rows
                 /\ \A row \in Rows : DOMAIN new[row] = Rows
                 /\ new[m.to[1]][m.to[2]] # 0
                 /\ Pieces(new) = Pieces(gs.board) -
                                    (IF m.captured = Null THEN 0 ELSE 1)

\* C14: a move has been applied and the player to move has a capture and
\* another has a simple move in the Position it left
C14_Witness ==
  /\ \E e \in out : e.ev = "gameStateUpdate"
  /\ \E id \in Games :
       LET gs == heap[id].gameState
       IN /\ \E m \in getAllValidMoves(gs.board, gs.currentTurn, gs.mustJumpFrom) :
               m.captured # Null
          /\ \E m \in getAllValidMoves(gs.board, 3 - gs.currentTurn, Null) :
               m.captured = Null

\* C15: when makeMove applies a capture (the payload naming the jumped piece)
\* that lands a man on its far row, the piece is a king on the destination,
\* and if that king has a capture from there the turn-owner is unchanged and
\* mustJumpFrom is the destination.
C15_PromotionKeepsChain ==
  [][\A s \in Sockets : Submits(s) =>
       \A valid \in {ValidFor(s)} :
         \A m \in { x \in valid :
                      /\ x.captured # Null
                      /\ Promotes(RoomAt(sock[s].roomId).gameState.board, x) } :
           MoveAccepted(s, valid, <<m.from, m.to>>, m.captured) =>
             LET old == heap[rooms[sock[s].roomId]].gameState
                 new == heap'[rooms[sock[s].roomId]].gameState
             IN /\ IsKing(new.board[m.to[1]][m.to[2]])
                /\ JumpsOf(new.board, m.to[1], m.to[2]) # {} =>
                     /\ new.currentTurn = old.currentTurn
                     /\ new.mustJumpFrom = m.to]_vars

\* C16: in every Position mustJumpFrom is empty or names a cell that holds a
\* piece of the player to move which has a capture; and every step that
\* changes the player to move of a game leaves its mustJumpFrom empty.
C16_ForcedContinuation ==
  /\ [](\A id \in Games :
          LET gs == heap[id].gameState
              c == gs.mustJumpFrom
          IN c # Null =>
               /\ gs.board[c[1]][c[2]] # 0
               /\ PlayerOf(gs.board[c[1]][c[2]]) = gs.currentTurn
               /\ JumpsOf(gs.board, c[1], c[2]) # {})
  /\ [][\A id \in Games :
          (/\ heap'[id] # NoObj
           /\ heap'[id].gameState.currentTurn # heap[id].gameState.currentTurn) =>
            heap'[id].gameState.mustJumpFrom = Null]_vars

\* C17: every registered room has one or two players and has a Position
\* exactly when it has two; createRoom registers a room with its socket alone
\* in it, no Position and no votes; and a room gets its first Position only by
\* a successful joinRoom for it, and that Position is the standard start.
C17_PositionIffTwoPlayers ==
  /\ [](\A roomId \in Tokens : rooms[roomId] # 0 =>
          LET room == RoomAt(roomId)
          IN /\ Len(room.players) \in {1, 2}
             /\ room.gameState # NullGame <=> Len(room.players) = 2)
  /\ [][\A s \in Sockets : CreateRoom(s) =>
          /\ rooms'[sock'[s].roomId] # 0
          /\ heap'[rooms'[sock'[s].roomId]] =
               [players |-> <<s>>, gameState |-> NullGame, rematchVotes |-> {}]]_vars
  /\ [][\A id \in ObjIds :
          (/\ heap[id] # NoObj /\ heap'[id] # NoObj
           /\ heap[id].gameState = NullGame
           /\ heap'[id].gameState # NullGame) =>
            /\ \E s \in Sockets : \E roomId \in Tokens :
                 rooms[roomId] = id /\ JoinSucceeded(s, roomId)
            /\ StandardStart(heap'[id].gameState)]_vars

\* C18: a makeMove, rematchVote or disconnect of a socket changes a registered
\* room, or takes it out of the registry, only if the socket is in one of the
\* room's slots.
C18_OnlyParticipantsAct ==
  [][\A s \in Sockets :
       (MakeMove(s) \/ RematchVote(s) \/ Disconnect(s)) =>
         \A roomId \in Tokens :
           (/\ rooms[roomId] # 0
            /\ \/ rooms'[roomId] # rooms[roomId]
               \/ heap'[rooms[roomId]] # heap[rooms[roomId]]) =>
             s \in Slots(RoomAt(roomId))]_vars

\* C19: the registered rooms that have the socket in one of their slots
RoomsOf(s) == { roomId \in Tokens : rooms[roomId] # 0 /\ s \in Slots(RoomAt(roomId)) }

\* C19: the two slots of a registered room hold different sockets, and no
\* socket is in the slots of two registered rooms.
C19_OneSlotPerSocket ==
  /\ \A roomId \in Tokens : rooms[roomId] # 0 =>
       LET players == RoomAt(roomId).players
       IN Len(players) = 2 => players[1] # players[2]
  /\ \A s \in Sockets : Cardinality(RoomsOf(s)) <= 1

\* C20: when the delayed gameStart of a room comes due after a player of the
\* room has disconnected and the room is out of the registry, no socket is
\* sent gameStart.
C20_NoStartAfterLeave ==
  [][\A t \in BagToSet(timers) :
       (/\ timers' = timers (-) SetToBag({t})
        /\ \E p \in Slots(heap[t.obj]) : sock[p].status = "closed"
        /\ \A roomId \in Tokens : rooms[roomId] # t.obj) =>
         \A e \in out' : e.ev = "gameStart" => e.to = {}]_vars

\* C21: a successful joinRoom emits roomJoined to the joiner and
\* opponentJoined to the socket in slot 1
JoinNotifies ==
  [][\A s \in Sockets : \A roomId \in Tokens :
       (sock[s].status = "open" /\ JoinSucceeded(s, roomId)) =>
         /\ Event("roomJoined", {s}, roomId) \in out'
         /\ Event("opponentJoined", {RoomAt(roomId).players[1]}, Null) \in out']_vars

\* C21: a room registered under a token with a gameStart pending (after a
\* successful joinRoom, or after the rematchVote that made the votes two) leads
\* to a gameStart sent to the sockets of that token's socket.io room
StartFollows ==
  \A roomId \in Tokens : \A id \in ObjIds :
    (rooms[roomId] = id /\ \E t \in BagToSet(timers) : t.obj = id)
      ~> (\E e \in out : e.ev = "gameStart" /\ e.to = Members(sock, roomId))

\* C21: every successful joinRoom notifies the joiner and the slot-1 player,
\* and every pending gameStart of a room is eventually broadcast to the room.
C21_GameStartFollows == JoinNotifies /\ StartFollows

====
